---- MODULE Spec2Model ----
(***************************************************************************)
(* Model of the BUIDL pallet (pallets/buidl/src/lib.rs): the storage items *)
(* NextChallengeId, Challenges and ChallengeSolutions, the balance locks   *)
(* placed through T::Deposit, the event log, and the three dispatchables   *)
(* create_challenge, edit_challenge and submit_solution.                   *)
(***************************************************************************)
EXTENDS Integers, Sequences, FiniteSets, TLC

\* ---------------------------------------------------------------- bounds
MaxEvents == 3
MaxReward == 1
MaxBalance == 1
MaxId == 1

\* ------------------------------------------------------ program constants
\* T::MaxMembers, the capacity of BoundedVec<AccountId, MaxMembers>
MaxMembers == 1
\* u16::MAX, the largest ChallengeId
U16Max == 65535

\* ---------------------------------------------------------- input domains
Accounts == {"alice", "bob"}
NoneOrigin == "none"
Origins == Accounts \cup {NoneOrigin}
Hashes == {"h1", "h2"}
Rewards == 0..MaxReward
Ids == 0..MaxId

SeqsUpTo(S, n) == UNION {[1..k -> S] : k \in 0..n}

\* Option<BoundedVec<AccountId, MaxMembers>>
NoJudges == [some |-> FALSE, val |-> <<>>]
JudgeOptions == {NoJudges} \cup {[some |-> TRUE, val |-> s] : s \in SeqsUpTo(Accounts, MaxMembers)}

\* Vec<AccountId>: not bounded by the type, so lists longer than MaxMembers occur
MemberLists == SeqsUpTo(Accounts, MaxMembers + 1)

VARIABLES
    NextChallengeId,     \* StorageValue<u16>
    Challenges,          \* StorageMap u16 -> Challenge
    ChallengeSolutions,  \* StorageMap u16 -> SubmittedSolution
    locks,               \* amount locked under DEPOSIT_FOR_CHALLENGE, per account (0: no lock)
    free,                \* free balance of each account in T::Deposit
    events,              \* deposited events, oldest first
    last                 \* the last dispatched call and its DispatchResult

vars == <<NextChallengeId, Challenges, ChallengeSolutions, locks, free, events, last>>
storage == <<NextChallengeId, Challenges, ChallengeSolutions, locks, free, events>>

\* ---------------------------------------------------------------- helpers
Ok == "Ok"
BadOrigin == "BadOrigin"
AccountHasNoChallengeRegistered == "AccountHasNoChallengeRegistered"
ChallengeDoesNotExist == "ChallengeDoesNotExist"
TooManyMembers == "TooManyMembers"

\* ensure_signed(origin): Ok(who) for a signed origin, Err(BadOrigin) otherwise
ensure_signed(origin) == origin \in Accounts

\* u16::checked_add: None on overflow
checked_add(a, b) ==
    IF a + b > U16Max THEN [some |-> FALSE, val |-> 0] ELSE [some |-> TRUE, val |-> a + b]

\* LockableCurrency::set_lock: creates the lock named by the identifier or
\* replaces its amount; never fails and never looks at the free balance; a
\* zero amount is a no-op.
set_lock(l, who, amount) ==
    IF amount = 0 THEN l ELSE [l EXCEPT ![who] = amount]

\* StorageMap::insert
insert(map, key, value) ==
    [k \in DOMAIN map \cup {key} |-> IF k = key THEN value ELSE map[k]]

\* StorageMap::contains_key
contains_key(map, key) == key \in DOMAIN map

\* a ChallengeCreated event that reports the id after the one written
ChallengeCreated_next_id(id, creator) == [kind |-> "ChallengeCreated", id |-> id + 1, who |-> creator]

ChallengeCreated(id, creator) == [kind |-> "ChallengeCreated", id |-> id, who |-> creator]
SolutionSubmitted(id, member) == [kind |-> "SolutionSubmitted", id |-> id, who |-> member]

deposit_event(log, e) == Append(log, e)

Call(op, origin, result) == [op |-> op, origin |-> origin, result |-> result]

\* free balances of the accounts at genesis: alice cannot cover any non-zero
\* reward, bob can cover rewards up to MaxBalance
Endowment == [a \in Accounts |-> IF a = "alice" THEN 0 ELSE MaxBalance]

\* ------------------------------------------------------------------- Init
Init ==
    /\ NextChallengeId = 0
    /\ Challenges = <<>>
    /\ ChallengeSolutions = <<>>
    /\ locks = [a \in Accounts |-> 0]
    /\ free = Endowment
    /\ events = <<>>
    /\ last = Call("none", NoneOrigin, Ok)

\* --------------------------------------------------------- create_challenge
\* a Challenge whose submissions counter is initialised from the reward
new_challenge_counter_from_reward(description, reward, judges) ==
    [description |-> description, reward |-> reward, judges |-> judges, submissions |-> reward]

\* the Challenge written by create_challenge
new_challenge(description, reward, judges) ==
    [description |-> description, reward |-> reward, judges |-> judges, submissions |-> 0]

\* the value create_challenge puts back into NextChallengeId: the result of
\* checked_add(1) is dropped and the id that was read is stored again
put_next_challenge_id(next_challenge_id) ==
    LET dropped == checked_add(next_challenge_id, 1) IN next_challenge_id

create_challenge(origin, description, reward, judges) ==
    /\ Len(events) < MaxEvents
    /\ IF ~ensure_signed(origin)
       THEN /\ last' = Call("create_challenge", origin, BadOrigin)
            /\ UNCHANGED storage
       ELSE LET who == origin
                next_challenge_id == NextChallengeId
            IN  /\ locks' = set_lock(locks, who, reward)
                /\ Challenges' = insert(Challenges, next_challenge_id,
                                        new_challenge(description, reward, judges))
                /\ NextChallengeId' = put_next_challenge_id(next_challenge_id)
                /\ events' = deposit_event(events, ChallengeCreated(next_challenge_id, who))
                /\ last' = Call("create_challenge", origin, Ok)
                /\ UNCHANGED <<ChallengeSolutions, free>>

\* ----------------------------------------------------------- edit_challenge
\* an edit that also clears the reward
edited_dropping_reward(challenge, new_description) ==
    [challenge EXCEPT !.description = new_description, !.reward = 0]

\* the challenge with its description replaced
edited(challenge, new_description) ==
    [challenge EXCEPT !.description = new_description]

edit_challenge(origin, id, new_description) ==
    IF ~ensure_signed(origin)
    THEN /\ last' = Call("edit_challenge", origin, BadOrigin)
         /\ UNCHANGED storage
    ELSE IF ~contains_key(Challenges, id)
    THEN /\ last' = Call("edit_challenge", origin, AccountHasNoChallengeRegistered)
         /\ UNCHANGED storage
    ELSE /\ Challenges' = insert(Challenges, id, edited(Challenges[id], new_description))
         /\ last' = Call("edit_challenge", origin, Ok)
         /\ UNCHANGED <<NextChallengeId, ChallengeSolutions, locks, free, events>>

\* ---------------------------------------------------------- submit_solution
\* a submit_solution that skips the existence check
challenge_exists_unchecked(challengeId) == TRUE

\* the existence check of submit_solution
challenge_exists(challengeId) == contains_key(Challenges, challengeId)

\* a submit_solution that deposits its event before the existence check, so
\* that a rejected call leaves the event behind
submit_solution_event_before_check(origin, challengeId, solution, members) ==
    /\ Len(events) < MaxEvents
    /\ IF ~ensure_signed(origin)
       THEN /\ last' = Call("submit_solution", origin, BadOrigin)
            /\ UNCHANGED storage
       ELSE /\ events' = deposit_event(events, SolutionSubmitted(challengeId, origin))
            /\ last' = Call("submit_solution", origin,
                            IF challenge_exists(challengeId) THEN Ok ELSE ChallengeDoesNotExist)
            /\ UNCHANGED <<NextChallengeId, Challenges, ChallengeSolutions, locks, free>>

submit_solution(origin, challengeId, solution, members) ==
    /\ Len(events) < MaxEvents
    /\ IF ~ensure_signed(origin)
       THEN /\ last' = Call("submit_solution", origin, BadOrigin)
            /\ UNCHANGED storage
       ELSE IF ~challenge_exists(challengeId)
       THEN /\ last' = Call("submit_solution", origin, ChallengeDoesNotExist)
            /\ UNCHANGED storage
       ELSE /\ events' = deposit_event(events, SolutionSubmitted(challengeId, origin))
            /\ last' = Call("submit_solution", origin, Ok)
            /\ UNCHANGED <<NextChallengeId, Challenges, ChallengeSolutions, locks, free>>

\* ------------------------------------------------------------------- Next
CreateChallenge ==
    \E origin \in Origins, description \in Hashes, reward \in Rewards, judges \in JudgeOptions :
        create_challenge(origin, description, reward, judges)

EditChallenge ==
    \E origin \in Origins, id \in Ids, new_description \in Hashes :
        edit_challenge(origin, id, new_description)

SubmitSolution ==
    \E origin \in Origins, challengeId \in Ids, solution \in Hashes, members \in MemberLists :
        submit_solution(origin, challengeId, solution, members)

Next == CreateChallenge \/ EditChallenge \/ SubmitSolution

Spec == Init /\ [][Next]_vars

TypeOK ==
    /\ NextChallengeId \in 0..U16Max
    /\ DOMAIN Challenges \subseteq 0..U16Max
    /\ \A i \in DOMAIN Challenges :
          /\ Challenges[i].description \in Hashes
          /\ Challenges[i].reward \in Rewards
          /\ Challenges[i].judges \in JudgeOptions
          /\ Challenges[i].submissions \in Nat
    /\ locks \in [Accounts -> Rewards]
    /\ free \in [Accounts -> 0..MaxBalance]
    /\ Len(events) <= MaxEvents

\* ------------------------------------------------ definitions for the claims
RECURSIVE SumOver(_, _)
SumOver(f, S) ==
    IF S = {} THEN 0
    ELSE LET x == CHOOSE y \in S : TRUE IN f[x] + SumOver(f, S \ {x})

\* total amount locked under DEPOSIT_FOR_CHALLENGE across all accounts
TotalLocked == SumOver(locks, Accounts)

\* sum of the reward fields of the stored challenges
SumRewards == SumOver([i \in DOMAIN Challenges |-> Challenges[i].reward], DOMAIN Challenges)

\* free balance of who not covered by the deposit lock
AvailableBalance(who) == IF free[who] > locks[who] THEN free[who] - locks[who] ELSE 0

\* positions of the ChallengeCreated events for id
CreatedAt(id) == {i \in 1..Len(events) : events[i].kind = "ChallengeCreated" /\ events[i].id = id}

\* position of the creation of the challenge now stored under id
LastCreatedAt(id) == CHOOSE i \in CreatedAt(id) : \A j \in CreatedAt(id) : j <= i

\* the account whose create_challenge wrote the challenge now stored under id
Sponsor(id) == events[LastCreatedAt(id)].who

\* who has a successful submit_solution against the challenge now stored under id
AlreadySubmitted(id, who) ==
    /\ CreatedAt(id) # {}
    /\ \E i \in 1..Len(events) :
          /\ i > LastCreatedAt(id)
          /\ events[i] = SolutionSubmitted(id, who)

\* the step is a dispatch of op by origin
Dispatched(op, origin) == last'.op = op /\ last'.origin = origin

\* C1: every successful create_challenge uses an id strictly greater than the
\* id of every earlier one, and NextChallengeId is never the key of an
\* existing challenge.
C1_MonotonicIds ==
    /\ \A i, j \in 1..Len(events) :
          (i < j /\ events[i].kind = "ChallengeCreated" /\ events[j].kind = "ChallengeCreated")
              => events[i].id < events[j].id
    /\ NextChallengeId \notin DOMAIN Challenges

\* C2: a create_challenge whose reward exceeds the sponsor's available free
\* balance fails with a funds error and writes no challenge, does not advance
\* NextChallengeId, places no lock and emits no event.
C2_CreateAtomicWithLock ==
    [][\A who \in Accounts, description \in Hashes, reward \in Rewards, judges \in JudgeOptions :
          (create_challenge(who, description, reward, judges) /\ AvailableBalance(who) < reward)
              => /\ last'.result = "FundsUnavailable"
                 /\ UNCHANGED <<Challenges, NextChallengeId, locks, events>>]_vars

\* C3: the total locked under the challenge deposit lock equals the sum of
\* the rewards of the challenges that exist.
C3_NoLeakage == TotalLocked = SumRewards

\* C4: edit_challenge of an existing challenge by a signed account other than
\* its sponsor fails with the authorization error and changes no storage.
C4_EditOnlyBySponsor ==
    [][\A who \in Accounts, id \in Ids, new_description \in Hashes :
          (/\ edit_challenge(who, id, new_description)
           /\ contains_key(Challenges, id)
           /\ CreatedAt(id) # {}
           /\ who # Sponsor(id))
              => /\ last'.result = AccountHasNoChallengeRegistered
                 /\ UNCHANGED storage]_vars

\* C5: a successful submit_solution for challenge c raises c's submissions
\* counter by exactly one.
C5_SubmitIncrementsCounter ==
    [][\A who \in Accounts, c \in Ids, solution \in Hashes, members \in MemberLists :
          (submit_solution(who, c, solution, members) /\ last'.result = Ok)
              => /\ contains_key(Challenges', c)
                 /\ Challenges'[c].submissions = Challenges[c].submissions + 1]_vars

\* C6: a second submit_solution for the same challenge by the same submitter
\* fails with a duplicate-submission error, emits no event and leaves the
\* recorded solution and the submissions counter unchanged.
C6_DuplicateRejected ==
    [][\A who \in Accounts, c \in Ids, solution \in Hashes, members \in MemberLists :
          (/\ submit_solution(who, c, solution, members)
           /\ contains_key(Challenges, c)
           /\ AlreadySubmitted(c, who))
              => /\ last'.result = "DuplicateSubmission"
                 /\ UNCHANGED <<events, ChallengeSolutions, Challenges>>]_vars

\* C7: a successful edit_challenge(id, new_description) sets the description
\* of challenge id to new_description and changes nothing else: reward,
\* judges and submissions of id, every other challenge, NextChallengeId,
\* ChallengeSolutions and the balance locks stay as they were.
C7_EditReplacesDescriptionOnly ==
    [][\A who \in Origins, id \in Ids, new_description \in Hashes :
          (/\ Dispatched("edit_challenge", who)
           /\ last'.result = Ok
           /\ edit_challenge(who, id, new_description))
              => /\ DOMAIN Challenges' = DOMAIN Challenges
                 /\ Challenges'[id].description = new_description
                 /\ Challenges'[id].reward = Challenges[id].reward
                 /\ Challenges'[id].judges = Challenges[id].judges
                 /\ Challenges'[id].submissions = Challenges[id].submissions
                 /\ \A other \in DOMAIN Challenges \ {id} : Challenges'[other] = Challenges[other]
                 /\ UNCHANGED <<NextChallengeId, ChallengeSolutions, locks>>]_vars

\* a successful edit_challenge has just run on a challenge with a locked,
\* non-zero reward and a judge set
C7_Witness ==
    /\ last.op = "edit_challenge"
    /\ last.result = Ok
    /\ \E id \in DOMAIN Challenges :
          /\ Challenges[id].reward > 0
          /\ Challenges[id].judges.some
          /\ locks[Sponsor(id)] = Challenges[id].reward

\* C8: edit_challenge on an id with no challenge fails with a not-found error
\* that is not the not-author error (AccountHasNoChallengeRegistered), and
\* creates no record under that id.
C8_EditUnknownIsNotFound ==
    [][\A who \in Accounts, id \in Ids, new_description \in Hashes :
          (edit_challenge(who, id, new_description) /\ ~contains_key(Challenges, id))
              => /\ last'.result # Ok
                 /\ last'.result # AccountHasNoChallengeRegistered
                 /\ ~contains_key(Challenges', id)]_vars

\* C9: submit_solution for an id that is not a key of Challenges fails, with
\* ChallengeDoesNotExist when the origin is signed, emits no event and
\* writes nothing.
C9_SubmitUnknownChallenge ==
    [][\A origin \in Origins, c \in Ids :
          (/\ Dispatched("submit_solution", origin)
           /\ ~contains_key(Challenges, c)
           /\ \E solution \in Hashes, members \in MemberLists :
                  submit_solution(origin, c, solution, members))
              => /\ last'.result # Ok
                 /\ ensure_signed(origin) => last'.result = ChallengeDoesNotExist
                 /\ UNCHANGED storage]_vars

\* a signed submit_solution has just been rejected for a missing challenge
\* while another challenge exists
C9_Witness ==
    /\ last.op = "submit_solution"
    /\ last.origin \in Accounts
    /\ last.result = ChallengeDoesNotExist
    /\ DOMAIN Challenges # {}
    /\ \E c \in Ids : ~contains_key(Challenges, c)

\* C10: submit_solution with more than MaxMembers members fails with
\* TooManyMembers, records no solution, leaves the submissions counter alone
\* and emits no event.
C10_TooManyMembersRejected ==
    [][\A who \in Accounts, c \in Ids, solution \in Hashes, members \in MemberLists :
          (/\ submit_solution(who, c, solution, members)
           /\ contains_key(Challenges, c)
           /\ Len(members) > MaxMembers)
              => /\ last'.result = TooManyMembers
                 /\ UNCHANGED <<ChallengeSolutions, Challenges, events>>]_vars

\* C11: every dispatchable is all-or-nothing: whenever create_challenge,
\* edit_challenge or submit_solution returns an error, for any origin (signed
\* or not) and any arguments, Challenges, ChallengeSolutions, NextChallengeId,
\* the balance locks and the event log are exactly as before the call.
C11_AllOrNothing ==
    [][\A origin \in Origins :
          /\ (/\ Dispatched("create_challenge", origin)
               /\ last'.result # Ok
               /\ \E description \in Hashes, reward \in Rewards, judges \in JudgeOptions :
                      create_challenge(origin, description, reward, judges))
                 => UNCHANGED <<Challenges, ChallengeSolutions, NextChallengeId, locks, events>>
          /\ (/\ Dispatched("edit_challenge", origin)
               /\ last'.result # Ok
               /\ \E id \in Ids, new_description \in Hashes :
                      edit_challenge(origin, id, new_description))
                 => UNCHANGED <<Challenges, ChallengeSolutions, NextChallengeId, locks, events>>
          /\ (/\ Dispatched("submit_solution", origin)
               /\ last'.result # Ok
               /\ \E challengeId \in Ids, solution \in Hashes, members \in MemberLists :
                      submit_solution(origin, challengeId, solution, members))
                 => UNCHANGED <<Challenges, ChallengeSolutions, NextChallengeId, locks, events>>]_vars

\* a call has just returned an error while a challenge, a lock and events
\* exist that a partial write could have touched
C11_Witness ==
    /\ last.result # Ok
    /\ last.op \in {"create_challenge", "edit_challenge", "submit_solution"}
    /\ DOMAIN Challenges # {}
    /\ \E a \in Accounts : locks[a] > 0
    /\ Len(events) >= 2

\* C12: a successful submit_solution(challenge, solution, members) stores a
\* SubmittedSolution for that challenge holding the supplied solution pointer
\* and member list, which a read of ChallengeSolutions then returns.
C12_SubmitStoresSolution ==
    [][\A who \in Accounts, c \in Ids, solution \in Hashes, members \in MemberLists :
          (/\ Dispatched("submit_solution", who)
           /\ last'.result = Ok
           /\ submit_solution(who, c, solution, members))
              => /\ contains_key(ChallengeSolutions', c)
                 /\ ChallengeSolutions'[c] = [solution |-> solution, members |-> members]]_vars

C14_RewardAndJudgesImmutable ==
    [][\A i \in DOMAIN Challenges :
          /\ contains_key(Challenges', i)
          /\ Challenges'[i].reward = Challenges[i].reward
          /\ Challenges'[i].judges = Challenges[i].judges]_vars

\* C15: the submissions counter only increases: every challenge id i that
\* exists stays in Challenges, and the submissions stored under i after any
\* step is at least the value before it.
C15_SubmissionsNeverDecrease ==
    [][\A i \in DOMAIN Challenges :
          /\ contains_key(Challenges', i)
          /\ Challenges'[i].submissions >= Challenges[i].submissions]_vars

\* a challenge that received a submission has just been written again by
\* create_challenge under the same id
C15_Witness ==
    /\ last.op = "create_challenge"
    /\ last.result = Ok
    /\ \E i \in DOMAIN Challenges, j, k \in 1..Len(events) :
          /\ j < k
          /\ k = LastCreatedAt(i)
          /\ events[j].kind = "SolutionSubmitted"
          /\ events[j].id = i

\* C16: a successful create_challenge(description, reward, judges) by signed
\* account who emits exactly one event, ChallengeCreated with creator = who
\* and id = the key under which the record was written, and afterwards
\* Challenges[id] holds the supplied description, reward and judges with
\* submissions = 0.
C16_CreateEmitsEventAndStoresRecord ==
    [][\A who \in Accounts, description \in Hashes, reward \in Rewards, judges \in JudgeOptions :
          (/\ Dispatched("create_challenge", who)
           /\ last'.result = Ok
           /\ create_challenge(who, description, reward, judges))
              => /\ Len(events') = Len(events) + 1
                 /\ SubSeq(events', 1, Len(events)) = events
                 /\ LET e == events'[Len(events')]
                    IN  /\ e.kind = "ChallengeCreated"
                        /\ e.who = who
                        /\ contains_key(Challenges', e.id)
                        /\ Challenges'[e.id] = [description |-> description, reward |-> reward,
                                                judges |-> judges, submissions |-> 0]
                        /\ \A k \in DOMAIN Challenges' \ {e.id} :
                              contains_key(Challenges, k) /\ Challenges'[k] = Challenges[k]]_vars

\* a create_challenge with a non-zero reward and a judge set has just
\* succeeded
C16_Witness ==
    /\ last.op = "create_challenge"
    /\ last.result = Ok
    /\ Len(events) >= 1
    /\ events[Len(events)].kind = "ChallengeCreated"
    /\ events[Len(events)].who = last.origin
    /\ contains_key(Challenges, events[Len(events)].id)
    /\ Challenges[events[Len(events)].id].reward > 0
    /\ Challenges[events[Len(events)].id].judges.some
====
